---- MODULE Spec2Model ----
(***************************************************************************)
(* world_dispatcher, src/system.rs: the System struct (initialize, lock,   *)
(* run_fn), the IntoSystem conversion generated by impl_system!, and the   *)
(* recursive macro expansion impl_systems! -> impl_system_muts! ->         *)
(* impl_system! that emits one conversion per signature shape.             *)
(*                                                                         *)
(* Several Systems work on one World.  World::initialize, World::get and   *)
(* World::get_mut live outside system.rs; they are modelled from the       *)
(* external interface of the specification (default-construct if absent,   *)
(* shared / exclusive borrow with a per-resource borrow counter).          *)
(***************************************************************************)
EXTENDS Integers, Sequences, FiniteSets, TLC

\* ------------------------------------------------------------------ bounds
MaxVal == 1
MaxLocked == 3

\* --------------------------------------------------------------- constants
DefaultVal == 0

\* "functions taking 12 arguments (22 if using the big_systems feature)"
MaxArity == 12
BigMaxArity == 22

\* The identifier lists handed to impl_systems!.
Idents == <<"A", "B", "C", "D", "E", "G", "H", "I", "J", "K", "L", "M">>
BigIdents == <<"A", "B", "C", "D", "E", "G", "H", "I", "J", "K", "L", "M",
               "O", "P", "Q", "R", "S", "T", "U", "V", "W">>

Types == {"A", "B"}
Units == {1, 2}
Values == 0..MaxVal

\* A signature: the types of the shared references, then those of the
\* exclusive references, as impl_system! receives them.
Sig(r, w) == [reads |-> r, writes |-> w]

\* The signatures the model converts: the closures and functions of the
\* tests (|| Ok(()), generic::<u32>, |_a: &A, b: &mut B|, a signature that
\* repeats a type like tmp2, in exclusive and in shared references) and the
\* two-writer scenarios.
Signatures ==
    << Sig(<<>>, <<>>),
       Sig(<<"A">>, <<>>),
       Sig(<<"A">>, <<"B">>),
       Sig(<<>>, <<"B">>),
       Sig(<<>>, <<"A", "B">>),
       Sig(<<"A", "B">>, <<>>),
       Sig(<<>>, <<"B", "B">>),
       Sig(<<"A", "A">>, <<>>) >>

SignatureSet == {Signatures[i] : i \in 1..Len(Signatures)}

\* ------------------------------------------------------------------ values
Ok == [kind |-> "Ok", type |-> "-"]
NotInitialized(t) == [kind |-> "NotInitialized", type |-> t]
Conflict(t) == [kind |-> "Conflict", type |-> t]
Application == [kind |-> "Application", type |-> "-"]
None == [kind |-> "None", type |-> "-"]

AccessErrors == {NotInitialized(t) : t \in Types} \cup {Conflict(t) : t \in Types}

\* SystemResult: the one result type of the wrapped function and of run_fn.
SystemResult == {Ok, Application} \cup AccessErrors

NoCall == [count |-> 0, args |-> <<>>, stored |-> <<>>, res |-> None]

VARIABLES
    sys,          \* sys[u]: the signature System u was converted from
    present,      \* World: present[t], the resource of type t exists
    value,        \* World: value[t], the value of the resource of type t
    borrow,       \* World: borrow counter of t (0 free, n > 0 shared, -1 exclusive)
    pc,           \* pc[u]: "idle", "lock", "run" or "invoked"
    locked,       \* locked[u]: the Vec<Box<dyn RefLifetime>> handed to lock
    temps,        \* temps[u]: the borrow temporaries of the run_fn call
    issued,       \* issued[u]: requests issued by the current / last call
    op,           \* op[u]: the operation of the current / last call
    ret,          \* ret[u]: the result returned by the last call
    call,         \* call[u]: the invocation of the wrapped function in the last run
    pre,          \* pre[u]: the borrow counters when the call started
    undisturbed   \* undisturbed[u]: nobody else touched the World since the call started

sysVars == <<sys, present, value, borrow, pc, locked, temps, issued, op, ret,
             call, pre, undisturbed>>

\* The expansion of the conversion macros (compile time).
VARIABLES
    feature,      \* the big_systems feature is enabled
    work,         \* macro invocations still to expand, in source order
    impls         \* the IntoSystem impls emitted so far, each by its parameter tokens

genVars == <<feature, work, impls>>

vars == <<sysVars, genVars>>

\* ----------------------------------------------------------------- helpers
Handle(m, t) == [mode |-> m, type |-> t]
ReadReqs(s) == [i \in 1..Len(s.reads) |-> Handle("R", s.reads[i])]
WriteReqs(s) == [i \in 1..Len(s.writes) |-> Handle("W", s.writes[i])]

\* Faulty expansions: get() where get_mut() belongs; the exclusive
\* references taken before the shared ones.
RequestsAllShared(s) ==
    ReadReqs(s) \o [i \in 1..Len(s.writes) |-> Handle("R", s.writes[i])]

RequestsWritesFirst(s) == WriteReqs(s) \o ReadReqs(s)

\* The requests of one acquisition, in the order the macro expands them:
\* get::<$id>() for every shared reference, then get_mut::<$idmut>() for
\* every exclusive reference.
Requests(s) == ReadReqs(s) \o WriteReqs(s)

\* Faulty expansions of the argument list of run_fn.
RunRequestsWritesFirst(s) == WriteReqs(s) \o ReadReqs(s)

RunRequestsReadsOnly(s) == ReadReqs(s)

\* run_fn expands the same two repetitions as its argument list:
\* &*get::<$id>()? for every shared reference, then
\* &mut *get_mut::<$idmut>()? for every exclusive reference.
RunRequests(s) == ReadReqs(s) \o WriteReqs(s)

Declared(s) == {s.reads[i] : i \in 1..Len(s.reads)} \cup {s.writes[i] : i \in 1..Len(s.writes)}

\* -------------------------------------------------- World (external store)
\* World::initialize::<T>(): insert the default value if T is absent.
WorldInitialize(w, t) ==
    IF w.present[t] THEN w
    ELSE [present |-> [w.present EXCEPT ![t] = TRUE],
          value |-> [w.value EXCEPT ![t] = DefaultVal]]

\* World::get::<T>(): a shared borrow.
Get(t) ==
    IF ~present[t] THEN NotInitialized(t)
    ELSE IF borrow[t] < 0 THEN Conflict(t)
    ELSE Ok

\* World::get_mut::<T>(): an exclusive borrow.
GetMut(t) ==
    IF ~present[t] THEN NotInitialized(t)
    ELSE IF borrow[t] # 0 THEN Conflict(t)
    ELSE Ok

\* The borrow counters after a granted request.
Granted(b, h) ==
    IF h.mode = "R" THEN [b EXCEPT ![h.type] = @ + 1]
    ELSE [b EXCEPT ![h.type] = -1]

\* The borrow counters after a handle is dropped.
Dropped(b, h) ==
    IF h.mode = "R" THEN [b EXCEPT ![h.type] = @ - 1]
    ELSE [b EXCEPT ![h.type] = 0]

RECURSIVE DropAll(_, _)
DropAll(b, hs) ==
    IF hs = <<>> THEN b ELSE DropAll(Dropped(b, Head(hs)), Tail(hs))

\* ------------------------------------------------------ System (system.rs)
\* The call a request expands to: (*_world).get::<$id>() for a shared
\* reference, (*_world).get_mut::<$idmut>() for an exclusive one.
\* Faulty request: an exclusive reference is asked for with get().
RequestShared(h) == Get(h.type)

Request(h) == IF h.mode = "R" THEN Get(h.type) ELSE GetMut(h.type)

\* Faulty request: a request that conflicts waits for the borrow to end.
MayProceedWhenFree(h) == Request(h).kind # "Conflict"

\* get()? and get_mut()? answer at once, granted or not: the expansion has
\* no loop and no wait around them, so the next request can always be made.
MayProceed(h) == TRUE

\* Faulty closure: the position reached by the last call is kept.
CallStateKept(q) == q

\* Each call of the lock and run_fn closures starts at the first request
\* of the expansion: the closures capture nothing but the function.
CallState(q) == <<>>

\* Faulty expansion: only the shared references are initialized.
InitTypesReadsOnly(s) == s.reads

\* initialize: _world.initialize::<$id>() for every shared reference, then
\* _world.initialize::<$idmut>() for every exclusive reference.
InitTypes(s) == s.reads \o s.writes

RECURSIVE InitializeAll(_, _)
InitializeAll(w, ts) ==
    IF ts = <<>> THEN w ELSE InitializeAll(WorldInitialize(w, Head(ts)), Tail(ts))

\* lock: what is left in *_locked when a request fails with `?`: the
\* handles pushed so far stay in the caller's vector.
LockedOnError(vec) == vec

\* Faulty run_fn: the temporaries are leaked, never dropped.
RunDroppedNone(held) == <<>>

\* run_fn: the temporaries dropped when a request fails with `?`, and when
\* the call of the wrapped function has returned: all of them.
RunDropped(held) == held

\* Faulty run_fn: the references are handed over in the opposite order.
ArgumentsReversed(held) == [i \in 1..Len(held) |-> held[Len(held) + 1 - i]]

\* run_fn: the references handed to the wrapped function are the
\* temporaries in the order they were taken.
Arguments(held) == held

\* Faulty propagation: every failed request is reported as a conflict.
PropagateAsConflict(e) == Conflict(e.type)

\* The `?` after get() / get_mut(): the error of the request ends the call
\* and is its result.
Propagate(e) == e

\* run_fn: the result of run is the result of the wrapped function.
RunResult(r) == r

\* Faulty binding: the function can store through every argument.
WriteArgsAll(args, n) == {args[i].type : i \in 1..Len(args)}

\* The types the wrapped function can store to: those of its exclusive
\* references, which are the arguments after the n shared ones.
WriteArgs(args, n) == {args[i].type : i \in (n + 1)..Len(args)}

Idle == \A u \in Units : pc[u] = "idle"

NoBorrows == [t \in Types |-> 0]

\* The units in U have seen the World change under them: what they
\* remembered of it at the start of their call no longer describes it.
Disturb(U) ==
    /\ undisturbed' = [v \in Units |-> IF v \in U THEN FALSE ELSE undisturbed[v]]
    /\ pre' = [v \in Units |-> IF v \in U THEN NoBorrows ELSE pre[v]]

TypeOK ==
    /\ sys \in [Units -> SignatureSet]
    /\ present \in [Types -> BOOLEAN]
    /\ value \in [Types -> Values]
    /\ borrow \in [Types -> Int]
    /\ pc \in [Units -> {"idle", "lock", "run", "invoked"}]
    /\ op \in [Units -> {"none", "initialize", "lock", "run"}]
    /\ ret \in [Units -> SystemResult \cup {None}]
    /\ undisturbed \in [Units -> BOOLEAN]

\* ------------------------------------------------------------------- Init
\* World::default() is empty; every System has just been converted.  The
\* units are interchangeable, so their signatures are taken in list order.
Init ==
    /\ \E i \in 1..Len(Signatures), j \in 1..Len(Signatures) :
         /\ i <= j
         /\ sys = <<Signatures[i], Signatures[j]>>
    /\ present = [t \in Types |-> FALSE]
    /\ value = [t \in Types |-> DefaultVal]
    /\ borrow = NoBorrows
    /\ pc = [u \in Units |-> "idle"]
    /\ locked = [u \in Units |-> <<>>]
    /\ temps = [u \in Units |-> <<>>]
    /\ issued = [u \in Units |-> <<>>]
    /\ op = [u \in Units |-> "none"]
    /\ ret = [u \in Units |-> None]
    /\ call = [u \in Units |-> NoCall]
    /\ pre = [u \in Units |-> NoBorrows]
    /\ undisturbed = [u \in Units |-> FALSE]
    /\ feature = FALSE
    /\ work = <<>>
    /\ impls = <<>>

\* ---------------------------------------------------------------- actions
\* System::initialize(&mut World): needs the World exclusively, so no call
\* that uses &World is in progress.
Initialize(u) ==
    /\ Idle
    /\ LET w == InitializeAll([present |-> present, value |-> value], InitTypes(sys[u]))
       IN /\ present' = w.present
          /\ value' = w.value
          /\ undisturbed' = [v \in Units |-> v = u \/ (w.present = present /\ undisturbed[v])]
          /\ pre' = [v \in Units |-> IF v = u THEN borrow
                                     ELSE IF w.present = present THEN pre[v] ELSE NoBorrows]
    /\ op' = [op EXCEPT ![u] = "initialize"]
    /\ ret' = [ret EXCEPT ![u] = Ok]
    /\ issued' = [issued EXCEPT ![u] = <<>>]
    /\ call' = [call EXCEPT ![u] = NoCall]
    /\ UNCHANGED <<genVars, sys, borrow, pc, locked, temps>>

\* world.initialize::<T>() called directly, as in tests::manual_system_run.
InitializeResource(t) ==
    /\ Idle
    /\ ~present[t]
    /\ LET w == WorldInitialize([present |-> present, value |-> value], t)
       IN /\ present' = w.present
          /\ value' = w.value
    /\ Disturb(Units)
    /\ UNCHANGED <<genVars, sys, borrow, pc, locked, temps, issued, op, ret, call>>

\* A call starts: the caller hands lock a vector, or calls run.
Start(u, o) ==
    /\ pc[u] = "idle"
    /\ pc' = [pc EXCEPT ![u] = o]
    /\ op' = [op EXCEPT ![u] = o]
    /\ issued' = [issued EXCEPT ![u] = CallState(@)]
    /\ ret' = [ret EXCEPT ![u] = None]
    /\ call' = [call EXCEPT ![u] = NoCall]
    /\ pre' = [pre EXCEPT ![u] = borrow]
    /\ undisturbed' = [undisturbed EXCEPT ![u] = TRUE]
    /\ UNCHANGED <<genVars, sys, present, value, borrow, locked, temps>>

LockStart(u) ==
    /\ Len(locked[u]) + Len(Requests(sys[u])) <= MaxLocked
    /\ Start(u, "lock")

\* lock: the next push(Box::new(get()?)) of the expansion, or the final Ok(()).
LockStep(u) ==
    /\ pc[u] = "lock"
    /\ LET reqs == Requests(sys[u])
           k == Len(issued[u]) + 1
       IN IF k > Len(reqs)
          THEN /\ pc' = [pc EXCEPT ![u] = "idle"]
               /\ ret' = [ret EXCEPT ![u] = Ok]
               /\ UNCHANGED <<borrow, locked, issued, undisturbed, pre>>
          ELSE /\ MayProceed(reqs[k])
               /\ issued' = [issued EXCEPT ![u] = Append(@, reqs[k])]
               /\ IF Request(reqs[k]) = Ok
                  THEN /\ borrow' = Granted(borrow, reqs[k])
                       /\ locked' = [locked EXCEPT ![u] = Append(@, reqs[k])]
                       /\ Disturb(Units \ {u})
                       /\ UNCHANGED <<pc, ret>>
                  ELSE /\ pc' = [pc EXCEPT ![u] = "idle"]
                       /\ ret' = [ret EXCEPT ![u] = Propagate(Request(reqs[k]))]
                       /\ locked' = [locked EXCEPT ![u] = LockedOnError(@)]
                       /\ UNCHANGED <<borrow, undisturbed, pre>>
    /\ UNCHANGED <<genVars, sys, present, value, temps, op, call>>

\* The caller drops (clears) the vector it handed to lock.
Release(u) ==
    /\ pc[u] = "idle"
    /\ locked[u] # <<>>
    /\ borrow' = DropAll(borrow, locked[u])
    /\ locked' = [locked EXCEPT ![u] = <<>>]
    /\ Disturb(Units)
    /\ UNCHANGED <<genVars, sys, present, value, pc, temps, issued, op, ret, call>>

RunStart(u) == Start(u, "run")

\* run_fn: the next argument expression &*_world.get()? / &mut *_world.get_mut()?.
RunStep(u) ==
    /\ pc[u] = "run"
    /\ Len(issued[u]) < Len(RunRequests(sys[u]))
    /\ LET reqs == RunRequests(sys[u])
           k == Len(issued[u]) + 1
       IN /\ MayProceed(reqs[k])
          /\ issued' = [issued EXCEPT ![u] = Append(@, reqs[k])]
          /\ IF Request(reqs[k]) = Ok
             THEN /\ borrow' = Granted(borrow, reqs[k])
                  /\ temps' = [temps EXCEPT ![u] = Append(@, reqs[k])]
                  /\ Disturb(Units \ {u})
                  /\ UNCHANGED <<pc, ret>>
             ELSE /\ pc' = [pc EXCEPT ![u] = "idle"]
                  /\ ret' = [ret EXCEPT ![u] = Propagate(Request(reqs[k]))]
                  /\ borrow' = DropAll(borrow, RunDropped(temps[u]))
                  /\ temps' = [temps EXCEPT ![u] = <<>>]
                  /\ Disturb(IF temps[u] = <<>> THEN {} ELSE Units \ {u})
    /\ UNCHANGED <<genVars, sys, present, value, locked, op, call>>

\* run_fn: every argument is bound; the wrapped function runs.  It stores
\* what it likes through its exclusive references and returns what it likes.
RunInvoke(u) ==
    /\ pc[u] = "run"
    /\ Len(issued[u]) = Len(RunRequests(sys[u]))
    /\ LET args == Arguments(temps[u])
           ws == WriteArgs(args, Len(sys[u].reads))
       IN \E st \in [ws -> Values], r \in SystemResult :
            /\ value' = [t \in Types |-> IF t \in ws THEN st[t] ELSE value[t]]
            /\ call' = [call EXCEPT ![u] = [count |-> @.count + 1, args |-> args,
                                            stored |-> st, res |-> r]]
    /\ pc' = [pc EXCEPT ![u] = "invoked"]
    /\ UNCHANGED <<genVars, sys, present, borrow, locked, temps, issued, op, ret, pre, undisturbed>>

\* run_fn: the call has returned; the temporaries are dropped and the
\* result of the function is the result of run.
RunReturn(u) ==
    /\ pc[u] = "invoked"
    /\ pc' = [pc EXCEPT ![u] = "idle"]
    /\ ret' = [ret EXCEPT ![u] = RunResult(call[u].res)]
    /\ borrow' = DropAll(borrow, RunDropped(temps[u]))
    /\ temps' = [temps EXCEPT ![u] = <<>>]
    /\ Disturb(IF temps[u] = <<>> THEN {} ELSE Units \ {u})
    /\ UNCHANGED <<genVars, sys, present, value, locked, issued, op, call>>

Next ==
    \/ \E u \in Units : Initialize(u)
    \/ \E t \in Types : InitializeResource(t)
    \/ \E u \in Units : LockStart(u)
    \/ \E u \in Units : LockStep(u)
    \/ \E u \in Units : Release(u)
    \/ \E u \in Units : RunStart(u)
    \/ \E u \in Units : RunStep(u)
    \/ \E u \in Units : RunInvoke(u)
    \/ \E u \in Units : RunReturn(u)

Spec == Init /\ [][Next]_vars

\* ------------------------------------------------ the conversion macros
Tok(id, m) == [id |-> id, mut |-> m]
Shared(ids) == [i \in 1..Len(ids) |-> Tok(ids[i], FALSE)]
Exclusive(ids) == [i \in 1..Len(ids) |-> Tok(ids[i], TRUE)]

ImplSystems(ids) == [m |-> "impl_systems", processed |-> <<>>, rest |-> ids]
ImplSystemMuts(p, r) == [m |-> "impl_system_muts", processed |-> p, rest |-> r]
ImplSystem(toks) == [m |-> "impl_system", processed |-> <<>>, rest |-> toks]

\* The top-level invocations: impl_system!(); then impl_systems! on the
\* list the feature selects.
TopLevel(f) == <<ImplSystem(<<>>), ImplSystems(IF f THEN BigIdents ELSE Idents)>>

GenInit ==
    /\ feature \in BOOLEAN
    /\ work = TopLevel(feature)
    /\ impls = <<>>
    /\ sys = <<Signatures[1], Signatures[1]>>
    /\ present = [t \in Types |-> FALSE]
    /\ value = [t \in Types |-> DefaultVal]
    /\ borrow = NoBorrows
    /\ pc = [u \in Units |-> "idle"]
    /\ locked = [u \in Units |-> <<>>]
    /\ temps = [u \in Units |-> <<>>]
    /\ issued = [u \in Units |-> <<>>]
    /\ op = [u \in Units |-> "none"]
    /\ ret = [u \in Units |-> None]
    /\ call = [u \in Units |-> NoCall]
    /\ pre = [u \in Units |-> NoBorrows]
    /\ undisturbed = [u \in Units |-> FALSE]

\* impl_systems!() => {}
SystemsBase ==
    /\ work # <<>>
    /\ Head(work).m = "impl_systems"
    /\ Head(work).rest = <<>>
    /\ work' = Tail(work)
    /\ UNCHANGED <<feature, impls, sysVars>>

\* impl_systems!($head, $($idents,)*) =>
\*     impl_system_muts!(; $head, $($idents,)*); impl_systems!($($idents,)*);
SystemsStep ==
    /\ work # <<>>
    /\ Head(work).m = "impl_systems"
    /\ Head(work).rest # <<>>
    /\ work' = <<ImplSystemMuts(<<>>, Head(work).rest),
                 ImplSystems(Tail(Head(work).rest))>> \o Tail(work)
    /\ UNCHANGED <<feature, impls, sysVars>>

\* impl_system_muts!($($processed),*;) => impl_system!($(&mut $processed,)*);
SystemMutsBase ==
    /\ work # <<>>
    /\ Head(work).m = "impl_system_muts"
    /\ Head(work).rest = <<>>
    /\ work' = <<ImplSystem(Exclusive(Head(work).processed))>> \o Tail(work)
    /\ UNCHANGED <<feature, impls, sysVars>>

\* impl_system_muts!($($processed),*; $head, $($tail,)*) =>
\*     impl_system!($($tail,)* $head, $(&mut $processed,)*);
\*     impl_system_muts!($($processed,)* $head; $($tail,)*);
SystemMutsStep ==
    /\ work # <<>>
    /\ Head(work).m = "impl_system_muts"
    /\ Head(work).rest # <<>>
    /\ LET p == Head(work).processed
           head == Head(Head(work).rest)
           tail == Tail(Head(work).rest)
       IN work' = <<ImplSystem(Shared(tail \o <<head>>) \o Exclusive(p)),
                    ImplSystemMuts(p \o <<head>>, tail)>> \o Tail(work)
    /\ UNCHANGED <<feature, impls, sysVars>>

\* impl_system!($($id,)* $(&mut $idmut,)*) emits the impl for these parameters.
SystemImpl ==
    /\ work # <<>>
    /\ Head(work).m = "impl_system"
    /\ impls' = Append(impls, Head(work).rest)
    /\ work' = Tail(work)
    /\ UNCHANGED <<feature, sysVars>>

GenNext ==
    \/ SystemsBase
    \/ SystemsStep
    \/ SystemMutsBase
    \/ SystemMutsStep
    \/ SystemImpl

SpecGen == GenInit /\ [][GenNext]_vars

\* ================================================================ claims
\* The declared access sequence of a signature, written out from its
\* parameter list: a shared request per read, then an exclusive one per write.
Declaration(s) ==
    [i \in 1..(Len(s.reads) + Len(s.writes)) |->
        IF i <= Len(s.reads) THEN [mode |-> "R", type |-> s.reads[i]]
        ELSE [mode |-> "W", type |-> s.writes[i - Len(s.reads)]]]

WriteSet(s) == {s.writes[i] : i \in 1..Len(s.writes)}

\* No type is named twice (the caller's obligation).
NoDup(s) == Cardinality(Declared(s)) = Len(s.reads) + Len(s.writes)

AllPresent(s) == \A t \in Declared(s) : present[t]

\* The last call of u was o and has returned.
Returned(u, o) == pc[u] = "idle" /\ op[u] = o /\ ret[u] # None

\* The last run of u failed while acquiring (the function was not called).
AcquisitionFailed(u) == ret[u] # Ok /\ call[u].count = 0

RECURSIVE GrantAll(_, _)
GrantAll(b, hs) ==
    IF hs = <<>> THEN b ELSE GrantAll(Granted(b, Head(hs)), Tail(hs))

\* The borrow counters that the live handles of all units account for.
Accounted == GrantAll(GrantAll(GrantAll(GrantAll(NoBorrows, locked[1]), locked[2]),
                               temps[1]), temps[2])

Suffix(q, n) == SubSeq(q, Len(q) - n + 1, Len(q))

\* C1: acquisition is all-or-nothing.  When lock has returned an error and
\* nobody else touched the World meanwhile, the borrow counters and the
\* caller's vector are as they were before the call; when it has returned
\* Ok, the vector ends with one handle per declared request.
C1_AllOrNothing ==
    \A u \in Units :
        Returned(u, "lock") =>
            IF ret[u] = Ok
            THEN /\ Len(locked[u]) >= Len(Declaration(sys[u]))
                 /\ Suffix(locked[u], Len(Declaration(sys[u]))) = Declaration(sys[u])
            ELSE undisturbed[u] => borrow = pre[u]

\* C2: run releases every handle before it returns, on every exit path.
\* Once run has returned it holds no temporary, the borrow counters are
\* exactly those of the handles that are still alive elsewhere, and, if
\* nobody else touched the World, they are the counters from before the call.
C2_RunReleases ==
    /\ borrow = Accounted
    /\ \A u \in Units :
        Returned(u, "run") =>
            /\ temps[u] = <<>>
            /\ undisturbed[u] => borrow = pre[u]

\* A run that failed part-way, after it had taken a handle, has returned.
C2_Witness ==
    \E u \in Units :
        /\ Returned(u, "run")
        /\ undisturbed[u]
        /\ AcquisitionFailed(u)
        /\ Len(issued[u]) >= 2

\* u holds exactly the handles of one successful lock.
Holding(u) ==
    /\ Returned(u, "lock")
    /\ ret[u] = Ok
    /\ locked[u] = Declaration(sys[u])
    /\ temps[u] = <<>>

\* Every type declared by both is declared Read by both.
Compatible(s1, s2) ==
    \A t \in Declared(s1) \cap Declared(s2) : t \notin WriteSet(s1) \cup WriteSet(s2)

\* v's lock ran from start to end while u held the handles of its own
\* lock and nothing else was borrowed, on a World that has what both declare.
SecondLock(u, v) ==
    /\ u # v
    /\ NoDup(sys[u]) /\ NoDup(sys[v])
    /\ AllPresent(sys[u]) /\ AllPresent(sys[v])
    /\ Holding(u)
    /\ Returned(v, "lock")
    /\ undisturbed[v]
    /\ pre[v] = GrantAll(NoBorrows, locked[u])

\* C3: the second acquisition succeeds iff every type declared by both
\* units is declared Read by both; otherwise it fails with a Conflict.
C3_SecondAcquisition ==
    \A u, v \in Units :
        SecondLock(u, v) =>
            /\ ret[v] = Ok <=> Compatible(sys[u], sys[v])
            /\ ret[v] # Ok => ret[v].kind = "Conflict"

\* Two locks that share a Read type have both succeeded.
C3_Witness ==
    \E u, v \in Units :
        /\ SecondLock(u, v)
        /\ Declared(sys[u]) \cap Declared(sys[v]) # {}
        /\ ret[v] = Ok

\* C4: a conflict is recoverable.  Two units declare Write(B): the second
\* lock fails with a Conflict (Conflict(B) when B is all they share) while
\* the first holds its handles; and a lock by a unit that does not hold a
\* complete earlier acquisition succeeds once the first unit has released
\* its handles and holds nothing, whatever its own earlier attempts were.
C4_ConflictRecoverable ==
    \A u, v \in Units :
        (u # v /\ "B" \in WriteSet(sys[u]) /\ "B" \in WriteSet(sys[v])
             /\ NoDup(sys[u]) /\ NoDup(sys[v]) /\ AllPresent(sys[v])) =>
            /\ SecondLock(u, v) =>
                   /\ ret[v].kind = "Conflict"
                   /\ Declared(sys[u]) \cap Declared(sys[v]) = {"B"} => ret[v] = Conflict("B")
            /\ (/\ Returned(v, "lock")
                /\ undisturbed[v]
                /\ Returned(u, "lock") /\ ret[u] = Ok
                /\ locked[u] = <<>> /\ temps[u] = <<>>
                /\ Len(locked[v]) < Len(Declaration(sys[v]))) => ret[v] = Ok

\* u ran on a World that had every declared type, none of them borrowed,
\* and nobody else has touched the World since the call started.
RunsAlone(u) ==
    /\ op[u] = "run"
    /\ undisturbed[u]
    /\ NoDup(sys[u])
    /\ AllPresent(sys[u])
    /\ \A t \in Declared(sys[u]) : pre[u][t] = 0

\* C5: with every declared type present and none borrowed, run does not
\* fail at acquisition: the function is called exactly once, its arguments
\* are the declared reads then the declared writes, run returns the
\* function's result, and the World holds what the function stored.
C5_RunBindsAndStores ==
    \A u \in Units :
        RunsAlone(u) =>
            /\ pc[u] = "idle" => (call[u].count = 1 /\ ret[u] = call[u].res)
            /\ pc[u] \in {"invoked", "idle"} =>
                   /\ call[u].count = 1
                   /\ call[u].args = Declaration(sys[u])
                   /\ DOMAIN call[u].stored = WriteSet(sys[u])
                   /\ \A t \in WriteSet(sys[u]) : value[t] = call[u].stored[t]

\* The run of |_a: &A, b: &mut B| has returned Ok and B holds the stored value.
C5_Witness ==
    \E u \in Units :
        /\ RunsAlone(u)
        /\ pc[u] = "idle"
        /\ sys[u] = Sig(<<"A">>, <<"B">>)
        /\ ret[u] = Ok
        /\ value["B"] = MaxVal

\* C6: initialize is idempotent and non-overwriting.  Every initialize step
\* leaves every declared type present, keeps every type that was present
\* and its value, gives a new type the default value, returns without an
\* error, and changes nothing when every declared type was present already.
C6_InitializeIdempotent ==
    [][\A u \in Units :
          Initialize(u) =>
            /\ \A t \in Declared(sys[u]) : present'[t]
            /\ \A t \in Types : present[t] => (present'[t] /\ value'[t] = value[t])
            /\ \A t \in Types : (~present[t] /\ present'[t]) =>
                                    (t \in Declared(sys[u]) /\ value'[t] = DefaultVal)
            /\ AllPresent(sys[u]) => (present' = present /\ value' = value)
            /\ ret'[u] = Ok]_vars

\* initialize has just returned on a World in which a declared type holds
\* a value that a run stored before.
C6_Witness ==
    \E u \in Units :
        /\ op[u] = "initialize"
        /\ undisturbed[u]
        /\ \E t \in Declared(sys[u]) : value[t] # DefaultVal

\* The acquisition of u returns in this step (the function was not reached).
AcquisitionReturns(u) == pc[u] \in {"lock", "run"} /\ pc'[u] = "idle"

\* The position, in declaration order, of the first type that is absent.
FirstAbsent(s) ==
    CHOOSE k \in 1..Len(Declaration(s)) :
        /\ ~present[Declaration(s)[k].type]
        /\ \A j \in 1..(k - 1) : present[Declaration(s)[j].type]

\* C7 as stated: with a declared type not initialized, the acquisition
\* returns NotInitialized for the first such type in declaration order and
\* creates nothing.
C7_NotInitializedFirst ==
    [][\A u \in Units :
          (AcquisitionReturns(u) /\ ~AllPresent(sys[u])) =>
            /\ ret'[u] = NotInitialized(Declaration(sys[u])[FirstAbsent(sys[u])].type)
            /\ present' = present]_vars

\* C7 as amended: with a declared type not initialized, the acquisition
\* fails and creates nothing, the function is not called, and the error is
\* NotInitialized for the first such type in declaration order unless a
\* request before it conflicts with an outstanding borrow, in which case
\* it is the Conflict of that request.
C7_NotInitializedOrEarlierConflict ==
    [][\A u \in Units :
          (AcquisitionReturns(u) /\ ~AllPresent(sys[u])) =>
            LET k == FirstAbsent(sys[u])
                n == Len(issued'[u])
            IN /\ \/ ret'[u] = NotInitialized(Declaration(sys[u])[k].type) /\ n = k
                  \/ /\ n < k
                     /\ ret'[u] = Conflict(Declaration(sys[u])[n].type)
               /\ call'[u].count = 0
               /\ present' = present
               /\ value' = value]_vars

\* An acquisition has failed with NotInitialized at its second request or
\* later, and the type is still absent.
C7_Witness ==
    \E u \in Units :
        /\ pc[u] = "idle"
        /\ op[u] \in {"lock", "run"}
        /\ ret[u].kind = "NotInitialized"
        /\ call[u].count = 0
        /\ Len(issued[u]) >= 2
        /\ ~present[ret[u].type]

\* C8: the result of run tells the two origins of a failure apart: a run
\* that failed to acquire returns an access error, a run that called the
\* function returns the function's result, and no result is both.
C8_OriginsDistinct ==
    \A u \in Units :
        Returned(u, "run") =>
            /\ call[u].count = 0 => ret[u] \in AccessErrors
            /\ call[u].count = 1 => (ret[u] = call[u].res /\ ret[u] \notin AccessErrors)

\* C9: the requests of one call are the shared requests for the reads in
\* parameter order, then the exclusive requests for the writes in parameter
\* order; a call that succeeds has issued them all, and a call that fails
\* has issued nothing after the request that failed.
C9_RequestOrder ==
    \A u \in Units :
        op[u] \in {"lock", "run"} =>
            LET d == Declaration(sys[u])
                n == Len(issued[u])
            IN /\ n <= Len(d)
               /\ issued[u] = SubSeq(d, 1, n)
               /\ (pc[u] = "idle" /\ ret[u] = Ok) => issued[u] = d
               /\ pc[u] = "invoked" => issued[u] = d
               /\ (pc[u] = "idle" /\ ret[u] # Ok /\ call[u].count = 0) =>
                      (n >= 1 /\ ret[u].type = d[n].type)

\* A lock of a signature with a read and a write has succeeded.
C9_Witness ==
    \E u \in Units :
        /\ Returned(u, "lock")
        /\ ret[u] = Ok
        /\ sys[u].reads # <<>> /\ sys[u].writes # <<>>
        /\ issued[u] = <<Handle("R", sys[u].reads[1]), Handle("W", sys[u].writes[1])>>

\* The number of shared and of exclusive references of an emitted impl.
SharedCount(toks) == Cardinality({i \in 1..Len(toks) : ~toks[i].mut})
ExclusiveCount(toks) == Cardinality({i \in 1..Len(toks) : toks[i].mut})

\* The number of impls emitted for the shape of r shared, w exclusive references.
ImplCount(r, w) ==
    Cardinality({i \in 1..Len(impls) :
                    SharedCount(impls[i]) = r /\ ExclusiveCount(impls[i]) = w})

SharedFirst(toks) ==
    \A i, j \in 1..Len(toks) : (toks[i].mut /\ ~toks[j].mut) => j < i

\* C10: once the macros are expanded there is exactly one impl for every
\* shape of r shared then w exclusive references with r + w <= 12 (22 with
\* big_systems), none for a larger shape, and every impl has its shared
\* references first.
C10_EveryShapeOnce ==
    work = <<>> =>
        LET max == IF feature THEN BigMaxArity ELSE MaxArity
        IN /\ \A r, w \in 0..(max + 1) :
                  ImplCount(r, w) = IF r + w <= max THEN 1 ELSE 0
           /\ \A i \in 1..Len(impls) : SharedFirst(impls[i])

\* ------------------------------------------------------------------- C11
\* The position of the second request for a type that s repeats.
SecondRequest(s) ==
    CHOOSE j \in 1..Len(Declaration(s)) :
        /\ \E i \in 1..(j - 1) : Declaration(s)[i].type = Declaration(s)[j].type
        /\ \A k \in 1..(j - 1) : \A i \in 1..(k - 1) :
               Declaration(s)[i].type # Declaration(s)[k].type

\* s names a type twice, at least once as an exclusive reference.
RepeatsExclusive(s) ==
    \E i, j \in 1..Len(Declaration(s)) :
        /\ i < j
        /\ Declaration(s)[i].type = Declaration(s)[j].type
        /\ "W" \in {Declaration(s)[i].mode, Declaration(s)[j].mode}

\* The acquisition of the last call of u went through.
Acquired(u) ==
    \/ Returned(u, "lock") /\ ret[u] = Ok
    \/ op[u] = "run" /\ call[u].count > 0

CanStep(u) ==
    CASE pc[u] = "lock" -> ENABLED LockStep(u)
      [] pc[u] = "run" -> ENABLED (RunStep(u) \/ RunInvoke(u))
      [] pc[u] = "invoked" -> ENABLED RunReturn(u)
      [] OTHER -> FALSE

\* The handles u holds, in its caller's vector and as temporaries of run.
Held(u) == locked[u] \o temps[u]

\* The next request of the call that u is in is refused as a conflict.
NextConflicts(u) ==
    /\ pc[u] \in {"lock", "run"}
    /\ Len(issued[u]) < Len(Declaration(sys[u]))
    /\ Request(Declaration(sys[u])[Len(issued[u]) + 1]).kind = "Conflict"

\* C12: no operation waits.  In every interleaving a unit that is inside
\* a lock or run call can take the next step of that call, whatever the
\* other units hold; the call issues each declared request at most once,
\* in order, so it ends after at most one step per request and two more.
C12_NoWait ==
    \A u \in Units :
        pc[u] # "idle" =>
            /\ CanStep(u)
            /\ Len(issued[u]) <= Len(Declaration(sys[u]))
            /\ issued[u] = SubSeq(Declaration(sys[u]), 1, Len(issued[u]))
            /\ pc[u] = "invoked" => call[u].count = 1

\* A unit inside a call is about to request a type on which the other
\* unit, itself inside a call, holds a conflicting handle.
C12_Witness ==
    \E u, v \in Units :
        /\ u # v
        /\ NextConflicts(u)
        /\ pc[v] # "idle"
        /\ \E i \in 1..Len(Held(v)) :
              Held(v)[i].type = Declaration(sys[u])[Len(issued[u]) + 1].type
        /\ \A i \in 1..Len(Held(u)) :
              Held(u)[i].type # Declaration(sys[u])[Len(issued[u]) + 1].type

\* ------------------------------------------------------------------- C13
\* How many live handles of mode m on type t the units hold.
CountIn(hs, m, t) == Cardinality({i \in 1..Len(hs) : hs[i] = Handle(m, t)})

Holders(m, t) == CountIn(Held(1), m, t) + CountIn(Held(2), m, t)

\* C13: in every reachable state each type has either no exclusive holder
\* (and any number of shared holders) or exactly one exclusive holder and
\* no shared holder; while a wrapped function executes with an exclusive
\* reference to a type, no other unit holds any handle to that type.
C13_SharedXorExclusive ==
    /\ \A t \in Types :
          \/ Holders("W", t) = 0
          \/ Holders("W", t) = 1 /\ Holders("R", t) = 0
    /\ \A u \in Units : \A v \in Units \ {u} :
          pc[u] = "invoked" =>
              \A t \in WriteArgs(call[u].args, Len(sys[u].reads)) :
                  \A i \in 1..Len(Held(v)) : Held(v)[i].type # t

\* A function executes with an exclusive reference to B and a shared one
\* to A, while the other unit holds a shared handle to A.
C13_Witness ==
    \E u \in Units : \E v \in Units \ {u} :
        /\ pc[u] = "invoked"
        /\ NoDup(sys[u]) /\ NoDup(sys[v])
        /\ temps[u] = <<Handle("R", "A"), Handle("W", "B")>>
        /\ Handle("R", "A") \in {Held(v)[i] : i \in 1..Len(Held(v))}

\* ------------------------------------------------------------------- C14
\* What the next step of lock would do to a call at the position of u:
\* the request it would make, and the answer it would get.
LockRequest(u) == Requests(sys[u])[Len(issued[u]) + 1]

\* One request of an acquisition at the position of u: it is lock's request
\* for that position; granted, its handle is added to the handles kept and
\* the borrow is taken; refused, the call ends with the error.
AcquiresNext(u, kept, keptAfter) ==
    /\ Len(issued[u]) < Len(Requests(sys[u]))
    /\ issued'[u] = Append(issued[u], LockRequest(u))
    /\ IF Request(LockRequest(u)) = Ok
       THEN /\ keptAfter = Append(kept, LockRequest(u))
            /\ borrow' = Granted(borrow, LockRequest(u))
            /\ pc'[u] = pc[u]
       ELSE /\ ret'[u] = Request(LockRequest(u))
            /\ pc'[u] = "idle"

\* C14: the acquisition inside run is that of lock, request for request.
\* In every state each request of run is the one lock makes at that
\* position; it is refused exactly when lock's is, with the same error as
\* the result of the call, and when granted it takes the same borrow.  The
\* function is called where lock returns Ok, with the handles lock would
\* have pushed, in the same order.
C14_RunAcquiresAsLock ==
    [][\A u \in Units :
         /\ RunStep(u) => AcquiresNext(u, temps[u], temps'[u])
         /\ (LockStep(u) /\ issued'[u] # issued[u]) =>
               AcquiresNext(u, locked[u], locked'[u])
         /\ RunInvoke(u) =>
               /\ Len(issued[u]) = Len(Requests(sys[u]))
               /\ temps[u] = Requests(sys[u])
               /\ call'[u].args = Requests(sys[u])
         /\ (LockStep(u) /\ issued'[u] = issued[u]) =>
               /\ Len(issued[u]) = Len(Requests(sys[u]))
               /\ Suffix(locked[u], Len(issued[u])) = Requests(sys[u])
               /\ ret'[u] = Ok
      ]_vars

\* The same signature has failed at the same second request with the same
\* error, once through lock and once through run.
C14_Witness ==
    \E u \in Units : \E v \in Units \ {u} :
        /\ sys[u] = sys[v]
        /\ Returned(u, "lock")
        /\ Returned(v, "run")
        /\ call[v].count = 0
        /\ ret[u] = ret[v]
        /\ ret[u] \in AccessErrors
        /\ issued[u] = issued[v]
        /\ Len(issued[v]) = 2

\* ------------------------------------------------------------------- C15
\* C15: the wrapped function is called only once every declared request
\* has been granted, and a run whose acquisition fails neither calls it nor
\* changes a resource value.  Every step of a run before the call leaves
\* the values as they are; the step that ends the run on a refused request
\* leaves the function uncalled; the function is called only from a state
\* in which the temporaries are the whole declaration.
C15_NoCallOnFailure ==
    [][\A u \in Units :
         /\ RunStep(u) =>
               /\ value' = value
               /\ call' = call
               /\ call[u] = NoCall
         /\ (RunStep(u) /\ pc'[u] = "idle") =>
               /\ ret'[u] \in AccessErrors
               /\ Len(issued'[u]) <= Len(Declaration(sys[u]))
               /\ Request(Declaration(sys[u])[Len(issued'[u])]) = ret'[u]
         /\ call'[u].count > call[u].count =>
               /\ pc[u] = "run"
               /\ temps[u] = Declaration(sys[u])
               /\ issued[u] = Declaration(sys[u])
               /\ call'[u].count = 1
               /\ ret[u] = None
      ]_vars

\* A run with an exclusive reference has ended on a conflict at its second
\* request; the function was not called and nothing was stored.
C15_Witness ==
    \E u \in Units :
        /\ Returned(u, "run")
        /\ sys[u].writes # <<>>
        /\ ret[u].kind = "Conflict"
        /\ Len(issued[u]) = 2
        /\ call[u] = NoCall
        /\ \A t \in Types : present[t] => value[t] = DefaultVal

\* ------------------------------------------------------------------- C16
\* The step belongs to a lock call of u (its start, a request, its return),
\* to a run call of u, or is the caller of u dropping its vector.
Moves(u) == pc'[u] # pc[u] \/ issued'[u] # issued[u]

LockCall(u) == Moves(u) /\ "lock" \in {pc[u], pc'[u]}

RunCall(u) == Moves(u) /\ {pc[u], pc'[u]} \cap {"run", "invoked"} # {}

Releases(u) == locked[u] # <<>> /\ locked'[u] = <<>>

\* C16: lock and run leave the set of present types as it is; only
\* initialize adds a type and nothing removes one.  lock changes no value;
\* run changes the value of no type but those of the exclusive references
\* of the unit, so the types of its shared references and the types it
\* does not name keep their values.
C16_Frame ==
    [][/\ \A t \in Types : present[t] => present'[t]
       /\ present' # present =>
             \/ \E u \in Units : Initialize(u)
             \/ \E t \in Types : InitializeResource(t)
       /\ \A u \in Units :
             /\ (LockCall(u) \/ RunCall(u) \/ Releases(u)) => present' = present
             /\ (LockCall(u) \/ Releases(u)) => value' = value
             /\ RunCall(u) =>
                   \A t \in Types \ WriteSet(sys[u]) : value'[t] = value[t]
      ]_vars

\* A function with a shared reference to A and an exclusive one to B has
\* stored to B; A, which the other unit had stored to earlier, kept its
\* value.
C16_Witness ==
    \E u \in Units :
        /\ pc[u] = "invoked"
        /\ sys[u] = Sig(<<"A">>, <<"B">>)
        /\ call[u].stored = [t \in {"B"} |-> MaxVal]
        /\ value["B"] = MaxVal
        /\ value["A"] = MaxVal
        /\ present["A"] /\ present["B"]

\* ------------------------------------------------------------------- C17
\* The answer to request h on a registry with the present types of the
\* state and the borrow counters b.
Answer(h, b) ==
    IF ~present[h.type] THEN NotInitialized(h.type)
    ELSE IF h.mode = "R" /\ b[h.type] < 0 THEN Conflict(h.type)
    ELSE IF h.mode = "W" /\ b[h.type] # 0 THEN Conflict(h.type)
    ELSE Ok

\* The outcome of acquiring the declaration d from its k-th request on, on
\* a registry with counters b: the result and the number of requests made.
RECURSIVE Outcome(_, _, _)
Outcome(d, b, k) ==
    IF k > Len(d) THEN [res |-> Ok, asked |-> Len(d)]
    ELSE IF Answer(d[k], b) = Ok THEN Outcome(d, Granted(b, d[k]), k + 1)
    ELSE [res |-> Answer(d[k], b), asked |-> k]

\* The handles the last call of u was granted.
GrantedNow(u) == IF ret[u] \in AccessErrors THEN Len(issued[u]) - 1 ELSE Len(issued[u])

\* C17: a unit carries no state between calls.  Its signature never
\* changes after the conversion, and the outcome of every lock or run call
\* that nobody disturbed is the one the declaration gives on the registry
\* as it was when the call started (present types and borrow counters),
\* whatever calls the unit made before and however they ended: the same
\* requests are made, the same error or success results, and run calls the
\* function exactly when the acquisition succeeds.
C17_Stateless ==
    /\ [][sys' = sys]_vars
    /\ [](\A u \in Units :
            (pc[u] = "idle" /\ op[u] \in {"lock", "run"} /\ undisturbed[u]) =>
                LET o == Outcome(Declaration(sys[u]), pre[u], 1)
                IN /\ Len(issued[u]) = o.asked
                   /\ IF op[u] = "lock" THEN ret[u] = o.res
                      ELSE IF o.res = Ok
                           THEN call[u].count = 1 /\ ret[u] = call[u].res
                           ELSE call[u] = NoCall /\ ret[u] = o.res)

\* A lock call has returned on a registry that still carries the borrows
\* of earlier calls of the same unit, whose handles are in its vector.
C17_Witness ==
    \E u \in Units :
        /\ Returned(u, "lock")
        /\ undisturbed[u]
        /\ pre[u] # NoBorrows
        /\ Len(locked[u]) > GrantedNow(u)
        /\ Len(issued[u]) = 2
        /\ locked[3 - u] = <<>> /\ temps[3 - u] = <<>>
====
